---- MODULE Spec2Model ----
(***************************************************************************)
(* StripeClient: the sliding-window throttler, the 429 retry loop and the  *)
(* response mapping of request(), as a state machine over a millisecond    *)
(* clock.  Several operations run concurrently on one client instance and  *)
(* interleave at every await of the source.                                *)
(***************************************************************************)
EXTENDS Integers, Sequences, FiniteSets, TLC

\* ---------------------------------------------------------------- bounds
MaxTime == 1000        \* last instant at which the clock takes a free step
TickStep == 1000       \* size of a free clock step, in ms
Max429 == 1            \* 429 responses the remote gives to one operation
InvokeUntil == 0       \* last instant of the burst of calls of LiveSpec

\* ------------------------------------------------------ program constants
windowMs == 1000
maxRequests == 25
marginMs == 50
defaultWaitSec == 2

\* The callers that run operations concurrently on the one client.
Ops == {"a", "b"}

\* Values of the Retry-After header as res.headers.get returns them:
\* null when the header is missing, otherwise the header's text.
NoHeader == "null"
RetryAfterValues == {NoHeader, "", "0", "1"}

\* What Number() gives for a text that is no number.
NaN == -1000000

\* Status codes the remote service answers with.
Statuses == {200, 204, 404, 429}

\* Arguments of the resource operations: a value carries its JavaScript
\* type; Undef is an argument that is not supplied.
Undef == [t |-> "undefined", n |-> 0, s |-> "", b |-> FALSE]
Num(n) == [t |-> "number", n |-> n, s |-> "", b |-> FALSE]
Str(s) == [t |-> "string", n |-> 0, s |-> s, b |-> FALSE]
Bool(b) == [t |-> "boolean", n |-> 0, s |-> "", b |-> b]

\* The truthiness JavaScript gives a value in a condition.
ToBoolean(v) ==
  CASE v.t = "undefined" -> FALSE
    [] v.t = "number" -> v.n # 0
    [] v.t = "string" -> v.s # ""
    [] v.t = "boolean" -> v.b

Digit(d) ==
  CASE d = 0 -> "0" [] d = 1 -> "1" [] d = 2 -> "2" [] d = 3 -> "3" [] d = 4 -> "4"
    [] d = 5 -> "5" [] d = 6 -> "6" [] d = 7 -> "7" [] d = 8 -> "8" [] d = 9 -> "9"

RECURSIVE Decimal(_)
Decimal(n) == IF n < 10 THEN Digit(n) ELSE Decimal(n \div 10) \o Digit(n % 10)

\* String(v) for the numbers (naturals), booleans and strings of the model.
String(v) ==
  CASE v.t = "number" -> Decimal(v.n)
    [] v.t = "boolean" -> (IF v.b THEN "true" ELSE "false")
    [] v.t = "string" -> v.s
    [] v.t = "undefined" -> "undefined"

\* A parameter mapping is a sequence of <<key, value>>, the value a string or
\* Undefined for a property whose value is undefined.
Undefined == "<undefined>"

\* A string argument passed through as a property value.
Prop(v) == IF v.t = "undefined" THEN Undefined ELSE v.s

\* The resource operations: the call of request() each one makes, kept with
\* the operation's name and its arguments under their wire keys.
createCustomer(email, name, phone, description) ==
  [op |-> "createCustomer",
   args |-> << <<"email", email>>, <<"name", name>>, <<"phone", phone>>,
               <<"description", description>> >>,
   method |-> "POST", path |-> "/customers",
   params |-> << <<"email", Prop(email)>>, <<"name", Prop(name)>>,
                 <<"phone", Prop(phone)>>, <<"description", Prop(description)>> >>]

getCustomer(customerId) ==
  [op |-> "getCustomer", args |-> << >>,
   method |-> "GET", path |-> "/customers/" \o customerId.s, params |-> << >>]

listCustomers(limit, startingAfter, email) ==
  [op |-> "listCustomers",
   args |-> << <<"limit", limit>>, <<"starting_after", startingAfter>>,
               <<"email", email>> >>,
   method |-> "GET", path |-> "/customers",
   params |-> << <<"limit", IF ToBoolean(limit) THEN String(limit) ELSE Undefined>>,
                 <<"starting_after", Prop(startingAfter)>>,
                 <<"email", Prop(email)>> >>]

createProduct(name, description, active) ==
  [op |-> "createProduct",
   args |-> << <<"name", name>>, <<"description", description>>,
               <<"active", active>> >>,
   method |-> "POST", path |-> "/products",
   params |-> << <<"name", Prop(name)>>, <<"description", Prop(description)>>,
                 <<"active", IF active.t # "undefined" THEN String(active)
                                                          ELSE Undefined>> >>]

listProducts(limit, active) ==
  [op |-> "listProducts",
   args |-> << <<"limit", limit>>, <<"active", active>> >>,
   method |-> "GET", path |-> "/products",
   params |-> << <<"limit", IF ToBoolean(limit) THEN String(limit) ELSE Undefined>>,
                 <<"active", IF active.t # "undefined" THEN String(active)
                                                          ELSE Undefined>> >>]

createPrice(productId, unitAmount, currency, recurringInterval) ==
  LET params == << <<"product", Prop(productId)>>,
                   <<"unit_amount", String(unitAmount)>>,
                   <<"currency", Prop(currency)>> >> IN
  [op |-> "createPrice",
   args |-> << <<"product", productId>>, <<"unit_amount", unitAmount>>,
               <<"currency", currency>>,
               <<"recurring[interval]", recurringInterval>> >>,
   method |-> "POST", path |-> "/prices",
   params |-> IF ToBoolean(recurringInterval)
              THEN Append(params, <<"recurring[interval]", recurringInterval.s>>)
              ELSE params]

\* The call of the core model: createCustomer with only the email supplied.
Requests == { createCustomer(Str("a@b.com"), Undef, Undef, Undef) }

\* The calls of the builder model.
Calls ==
  {createCustomer(e, n, Undef, d) :
     e \in {Undef, Str(""), Str("a@b.com")}, n \in {Undef, Str("")},
     d \in {Undef, Str("vip")}}
  \cup {getCustomer(Str("cus_1"))}
  \cup {listCustomers(l, sa, e) :
          l \in {Undef, Num(0), Num(10)}, sa \in {Undef, Str("cus_1")},
          e \in {Undef, Str("a@b.com")}}
  \cup {createProduct(Str("Pro"), d, a) :
          d \in {Undef, Str("")}, a \in {Undef, Bool(TRUE), Bool(FALSE)}}
  \cup {listProducts(l, a) :
          l \in {Undef, Num(0), Num(10)}, a \in {Undef, Bool(TRUE), Bool(FALSE)}}
  \cup {createPrice(Str("prod_1"), u, Str("usd"), r) :
          u \in {Num(0), Num(5000)}, r \in {Undef, Str(""), Str("month")}}

VARIABLES now, requestTimestamps, ops, env, client, tool, peerTimestamps, peer,
          constructions

vars == <<now, requestTimestamps, ops, env, client, tool, peerTimestamps, peer,
          constructions>>

\* What lies outside the client in use: the environment, the registration
\* layer (its _client, its handlers, the number of clients it has constructed)
\* and a second client instance.
others == <<env, client, tool, peerTimestamps, peer, constructions>>

\* ------------------------------------------------------------ pure parts

\* Mutant: the filter keeps a timestamp that is exactly one window old.
PrunedInclusive(log, t) == SelectSeq(log, LAMBDA ts : t - ts <= windowMs)

\* requestTimestamps.filter((ts) => now - ts < windowMs)
Pruned(log, t) == SelectSeq(log, LAMBDA ts : t - ts < windowMs)

\* Mutant: the limit is taken one call too early.
AtLimitOffByOne(log) == Len(log) >= maxRequests - 1

\* Mutant: the limit is only reached above maxRequests entries.
AtLimitExclusive(log) == Len(log) > maxRequests

\* this.requestTimestamps.length >= maxRequests
AtLimit(log) == Len(log) >= maxRequests

\* Mutant: the safety margin is left out of the wait.
WaitMsNoMargin(t, oldest) == windowMs - (t - oldest)

\* Mutant: the age of the oldest entry is added instead of subtracted.
WaitMsAgeAdded(t, oldest) == windowMs + (t - oldest) + marginMs

\* windowMs - (now - oldest) + 50
WaitMs(t, oldest) == windowMs - (t - oldest) + marginMs

\* JavaScript truthiness of a header value: null and "" are falsy.
Truthy(h) == h # NoHeader /\ h # ""

\* Number(retryAfter) on the header texts of RetryAfterValues.
Number(h) ==
  CASE h = "0" -> 0
    [] h = "1" -> 1
    [] h = "" -> 0
    [] OTHER -> NaN

\* Mutant: Number(retryAfter) || 2, which also replaces a hint of 0 seconds.
WaitSecOrDefault(retryAfter) ==
  IF retryAfter = NoHeader \/ Number(retryAfter) \in {0, NaN}
  THEN defaultWaitSec
  ELSE Number(retryAfter)

\* const waitSec = retryAfter ? Number(retryAfter) : 2
WaitSec(retryAfter) == IF Truthy(retryAfter) THEN Number(retryAfter) ELSE defaultWaitSec

\* Mutant: the seconds are handed to setTimeout as if they were milliseconds.
RetryDelayUnscaled(waitSec) == waitSec

\* waitSec * 1000, the delay handed to setTimeout; NaN * 1000 is NaN.
RetryDelayMs(waitSec) == IF waitSec = NaN THEN NaN ELSE waitSec * 1000

\* A timer set at t with the given delay is not run before this instant;
\* a NaN or non-positive delay lets it run as soon as the event loop turns.
TimerDue(t, delay) == IF delay = NaN \/ delay <= 0 THEN t ELSE t + delay

\* res.ok
IsOk(status) == status >= 200 /\ status <= 299

\* Mutant: the no-content case is not recognised.
NoContentIgnored(status) == FALSE

\* res.status === 204
IsNoContent(status) == status = 204

\* Mutant: empty values are dropped as well.
FilteredNonEmpty(params) == SelectSeq(params, LAMBDA kv : kv[2] # Undefined /\ kv[2] # "")

\* Object.entries(params).filter(([, v]) => v !== undefined)
Filtered(params) == SelectSeq(params, LAMBDA kv : kv[2] # Undefined)

\* Percent-encoding of application/x-www-form-urlencoded, for the strings of
\* the model: "@", "[" and "]" are escaped, letters, digits and "_" are not.
Encode(str) ==
  CASE str = "a@b.com" -> "a%40b.com"
    [] str = "recurring[interval]" -> "recurring%5Binterval%5D"
    [] OTHER -> str

\* new URLSearchParams(filtered).toString()
RECURSIVE URLSearchParams(_)
URLSearchParams(filtered) ==
  IF Len(filtered) = 0 THEN ""
  ELSE LET pair == Encode(filtered[1][1]) \o "=" \o Encode(filtered[1][2]) IN
       IF Len(filtered) = 1 THEN pair
       ELSE pair \o "&" \o URLSearchParams(Tail(filtered))

\* The wire request built by request(): query string for GET/DELETE (none
\* when no parameter is left), form body with its content type otherwise.
Build(req) ==
  LET filtered == Filtered(req.params) IN
  IF req.method = "GET" \/ req.method = "DELETE"
  THEN [method |-> req.method, path |-> req.path, query |-> filtered,
        url |-> IF Len(filtered) > 0
                THEN req.path \o "?" \o URLSearchParams(filtered) ELSE req.path,
        body |-> << >>, text |-> "", contentType |-> "none"]
  ELSE [method |-> req.method, path |-> req.path, query |-> << >>,
        url |-> req.path,
        body |-> filtered, text |-> URLSearchParams(filtered),
        contentType |-> "application/x-www-form-urlencoded"]

NoRequest == [op |-> "none", args |-> << >>, method |-> "none", path |-> "",
              params |-> << >>]
NoSent == [method |-> "none", path |-> "", query |-> << >>, url |-> "",
           body |-> << >>, text |-> "", contentType |-> "none"]
NoOutcome == [kind |-> "none", status |-> 0, value |-> "", body |-> "",
              message |-> << >>, readFailed |-> FALSE]

\* res.statusText for the statuses of Statuses.
StatusText(status) ==
  CASE status = 200 -> "OK"
    [] status = 204 -> "No Content"
    [] status = 404 -> "Not Found"
    [] status = 429 -> "Too Many Requests"
    [] OTHER -> ""

\* What res.text() gives for an error response: the body text, which may be
\* empty, or a rejection.
ReadFails == "<rejected>"
ErrorBodies == {"{\"error\":{\"message\":\"No such customer\"}}", "", ReadFails}

\* `Stripe API error (${res.status} ${res.statusText}): ${errorBody}`
ErrorMessage(status, statusText, errorBody) ==
  <<"Stripe API error (", status, " ", statusText, "): ", errorBody>>

\* Mutant: the rejection of res.text() is not caught.
UncaughtText(read) == read

\* .catch(() => "")
CaughtText(read) == IF read = ReadFails THEN "" ELSE read

\* ------------------------------------------------------------------ state

IdleOp ==
  [pc |-> "idle", req |-> NoRequest, deadline |-> 0, oldest |-> 0,
   suspended |-> FALSE, n429 |-> 0, nAdm |-> 0, nFetch |-> 0,
   sent |-> NoSent, status |-> 0,
   hint |-> NoHeader, got429At |-> 0, outcome |-> NoOutcome]

\* process.env.STRIPE_SECRET_KEY: not set, set to the empty string, or a key.
Unset == "<unset>"
SecretKey == "sk_test_1"
EnvValues == {Unset, "", SecretKey}

\* Mutant: the constructor accepts any value of the variable.
HasKeyAlways(key) == TRUE

\* The constructor's test: if (!key) throw.
HasKey(key) == key # Unset /\ key # ""

\* Error objects: what instanceof Error gives, and the message.
Error(message) == [instanceOfError |-> TRUE, message |-> message]

ConfigMessage ==
  "STRIPE_SECRET_KEY environment variable is not set. Get your secret key from https://dashboard.stripe.com/apikeys"

\* _client of registerTools: null, or the client constructed by getClient().
Null == "null"
Constructed == "StripeClient"

\* errorResult(error)
ErrorResult(error) ==
  [isError |-> TRUE,
   text |-> <<"Error: ">> \o (IF error.instanceOfError THEN error.message
                                ELSE <<"An unknown error occurred">>),
   failed |-> "none"]

NoResult == [isError |-> FALSE, text |-> << >>, failed |-> "none"]

\* A tool handler per caller: not called, awaiting the client's promise (name
\* is the tool that runs), resolved with a result, or rejected.
IdleTool == [pc |-> "idle", name |-> "none", result |-> NoResult]

\* Mutant: the handler has no catch block, the failure rejects its promise.
Rethrow(error, cause) == [pc |-> "rejected", name |-> "none", result |-> NoResult]

\* catch (error) { return errorResult(error); } ; cause names where the
\* failure was raised.
Catch(error, cause) ==
  [pc |-> "resolved", name |-> "none",
   result |-> [ErrorResult(error) EXCEPT !.failed = cause]]

\* return { content: [{ type: "text", text: JSON.stringify(...) }] }
Return(status) ==
  [pc |-> "resolved", name |-> "none",
   result |-> [isError |-> FALSE, text |-> <<"JSON", status>>, failed |-> "none"]]

\* The tools of the model and the call each handler makes.
Tools == {"stripe_create_customer", "stripe_list_customers"}

ToolRequest(name) ==
  IF name = "stripe_list_customers"
  THEN listCustomers(Undef, Undef, Undef)
  ELSE createCustomer(Str("a@b.com"), Undef, Undef, Undef)

\* A caller on a second client instance: idle, or suspended in throttle().
IdlePeer == [pc |-> "idle", deadline |-> 0]

\* The client is constructed with its key and is called directly; nothing
\* else is in use.
Started ==
  /\ env = SecretKey
  /\ client = Constructed
  /\ tool = [o \in Ops |-> IdleTool]
  /\ peerTimestamps = << >>
  /\ peer = IdlePeer
  /\ constructions = 1

Init ==
  /\ now = 0
  /\ requestTimestamps = << >>
  /\ ops = [o \in Ops |-> IdleOp]
  /\ Started

Pending(o) == ops[o].pc \notin {"idle", "done"}

\* The instants at which a pending timer becomes due.
Deadlines ==
  {ops[o].deadline : o \in {p \in Ops : ops[p].pc \in {"throttleWait", "retryWait"}}}
  \cup (IF peer.pc = "throttleWait" THEN {peer.deadline} ELSE {})

\* The operation has settled: its promise carries the outcome and the call's
\* locals are gone.
Settled(rec, outcome) == [IdleOp EXCEPT !.pc = "done", !.outcome = outcome]

\* ---------------------------------------------------------------- actions

\* Date.now() moves on: by a free step, or up to the next timer that is due.
Tick ==
  /\ \E t \in {now + TickStep} \cup Deadlines :
       /\ t > now
       /\ t <= MaxTime \/ t \in Deadlines
       /\ now' = t
  /\ UNCHANGED <<requestTimestamps, ops>>
  /\ UNCHANGED others

\* throttle() from its entry to its first await or its return, run by
\* operation o whose other fields are already those of rec.
Throttle(o, rec) ==
  LET pruned == Pruned(requestTimestamps, now) IN
  IF AtLimit(pruned) /\ WaitMs(now, pruned[1]) > 0
  THEN /\ requestTimestamps' = pruned
       /\ ops' = [ops EXCEPT ![o] =
            [rec EXCEPT !.pc = "throttleWait", !.suspended = TRUE,
                        !.oldest = pruned[1],
                        !.deadline = TimerDue(now, WaitMs(now, pruned[1]))]]
  ELSE /\ requestTimestamps' = Append(pruned, now)
       /\ ops' = [ops EXCEPT ![o] =
            [rec EXCEPT !.pc = "admitted", !.suspended = FALSE,
                        !.nAdm = rec.nAdm + 1]]

\* A resource operation calls request(method, path, params).
Invoke(o) ==
  /\ ops[o].pc \in {"idle", "done"}
  /\ now <= MaxTime
  /\ \E r \in Requests : Throttle(o, [IdleOp EXCEPT !.req = r])
  /\ UNCHANGED now
  /\ UNCHANGED others

\* Mutant: after its wait the caller runs the admission check again.
ThrottleWakeRecheck(o) ==
  /\ ops[o].pc = "throttleWait"
  /\ now >= ops[o].deadline
  /\ Throttle(o, [ops[o] EXCEPT !.deadline = 0, !.oldest = 0])
  /\ UNCHANGED now
  /\ UNCHANGED others

\* The throttle timer ran: push(Date.now()) and return.
ThrottleWake(o) ==
  /\ ops[o].pc = "throttleWait"
  /\ now >= ops[o].deadline
  /\ requestTimestamps' = Append(requestTimestamps, now)
  /\ ops' = [ops EXCEPT ![o].pc = "admitted", ![o].nAdm = @ + 1,
                        ![o].deadline = 0, ![o].oldest = 0]
  /\ UNCHANGED now
  /\ UNCHANGED others

\* After await this.throttle(): build the request and call fetch.
Fetch(o) ==
  /\ ops[o].pc = "admitted"
  /\ ops' = [ops EXCEPT ![o].pc = "fetching",
                        ![o].nFetch = @ + 1,
                        ![o].suspended = FALSE,
                        ![o].sent = Build(ops[o].req)]
  /\ UNCHANGED <<now, requestTimestamps>>
  /\ UNCHANGED others

\* Mutant: no retry branch, a 429 is handled like any other non-2xx status.
OnResponseNoRetry(o, status, retryAfter) ==
  IF ~(status >= 200 /\ status <= 299)
  THEN ops' = [ops EXCEPT ![o].pc = "text", ![o].status = status, ![o].hint = NoHeader]
  ELSE IF status = 204
  THEN ops' = [ops EXCEPT ![o] = [IdleOp EXCEPT !.pc = "done",
                 !.outcome = [NoOutcome EXCEPT !.kind = "result", !.status = status,
                                               !.value = "empty"]]]
  ELSE ops' = [ops EXCEPT ![o].pc = "json", ![o].status = status, ![o].hint = NoHeader]

\* Mutant: every non-2xx status is retried like a 429.
OnResponseRetryAll(o, status, retryAfter) ==
  IF ~(status >= 200 /\ status <= 299)
  THEN ops' = [ops EXCEPT ![o].pc = "retryWait",
                          ![o].status = status,
                          ![o].hint = retryAfter,
                          ![o].got429At = now,
                          ![o].deadline = TimerDue(now, RetryDelayMs(WaitSec(retryAfter)))]
  ELSE IF status = 204
  THEN ops' = [ops EXCEPT ![o] = [IdleOp EXCEPT !.pc = "done",
                 !.outcome = [NoOutcome EXCEPT !.kind = "result", !.status = status,
                                               !.value = "empty"]]]
  ELSE ops' = [ops EXCEPT ![o].pc = "json", ![o].status = status, ![o].hint = NoHeader]

\* What request() does with a response of the given status and Retry-After.
OnResponse(o, status, retryAfter) ==
  IF status = 429
  THEN ops' = [ops EXCEPT ![o].pc = "retryWait",
                          ![o].status = status,
                          ![o].n429 = @ + 1,
                          ![o].hint = retryAfter,
                          ![o].got429At = now,
                          ![o].deadline = TimerDue(now, RetryDelayMs(WaitSec(retryAfter)))]
  ELSE IF ~IsOk(status)
  THEN ops' = [ops EXCEPT ![o].pc = "text", ![o].status = status, ![o].hint = NoHeader]
  ELSE IF IsNoContent(status)
  THEN ops' = [ops EXCEPT ![o] = Settled(ops[o], [NoOutcome EXCEPT !.kind = "result",
                                                   !.status = status, !.value = "empty"])]
  ELSE ops' = [ops EXCEPT ![o].pc = "json", ![o].status = status, ![o].hint = NoHeader]

\* fetch resolves with a response.
Respond(o) ==
  /\ ops[o].pc = "fetching"
  /\ \E status \in Statuses, retryAfter \in RetryAfterValues :
       /\ status = 429 => ops[o].n429 < Max429
       /\ status # 429 => retryAfter = NoHeader
       /\ OnResponse(o, status, retryAfter)
  /\ UNCHANGED <<now, requestTimestamps>>
  /\ UNCHANGED others

\* Mutant: a failed call gives its admission back.
TransportFailRefund(o) ==
  /\ ops[o].pc = "fetching"
  /\ ops' = [ops EXCEPT ![o] = Settled(ops[o], [NoOutcome EXCEPT !.kind = "failure",
                                                 !.value = "transport",
                                                 !.message = <<"fetch failed">>])]
  /\ requestTimestamps' = SubSeq(requestTimestamps, 1, Len(requestTimestamps) - 1)
  /\ UNCHANGED now
  /\ UNCHANGED others

\* fetch rejects: the failure propagates out of request().
TransportFail(o) ==
  /\ ops[o].pc = "fetching"
  /\ ops' = [ops EXCEPT ![o] = Settled(ops[o], [NoOutcome EXCEPT !.kind = "failure",
                                                 !.value = "transport",
                                                 !.message = <<"fetch failed">>])]
  /\ UNCHANGED <<now, requestTimestamps>>
  /\ UNCHANGED others

\* Mutant: the retry goes straight to fetch, without asking the throttler.
RetryWakeUnthrottled(o) ==
  /\ ops[o].pc = "retryWait"
  /\ now >= ops[o].deadline
  /\ ops' = [ops EXCEPT ![o].pc = "admitted", ![o].deadline = 0, ![o].got429At = 0]
  /\ UNCHANGED <<now, requestTimestamps>>
  /\ UNCHANGED others

\* Mutant: after the wait the retry is never started, so the call stays pending.
RetryWakeDropped(o) ==
  /\ ops[o].pc = "retryWait"
  /\ now >= ops[o].deadline
  /\ ops' = [ops EXCEPT ![o].pc = "lost", ![o].deadline = 0, ![o].got429At = 0]
  /\ UNCHANGED <<now, requestTimestamps>>
  /\ UNCHANGED others

\* The retry timer ran: return this.request(method, path, params).
RetryWake(o) ==
  /\ ops[o].pc = "retryWait"
  /\ now >= ops[o].deadline
  /\ Throttle(o, [ops[o] EXCEPT !.deadline = 0, !.got429At = 0])
  /\ UNCHANGED now
  /\ UNCHANGED others

\* The failure request() throws for a non-2xx response whose body read gave
\* `read`; a rejection that escapes the catch is thrown as it is.
Thrown(status, read) ==
  LET errorBody == CaughtText(read) IN
  IF errorBody = ReadFails
  THEN [NoOutcome EXCEPT !.kind = "failure", !.value = "read",
                         !.message = <<"body read failed">>, !.readFailed = TRUE]
  ELSE [NoOutcome EXCEPT !.kind = "failure", !.status = status, !.value = "http",
                         !.body = errorBody,
                         !.message = ErrorMessage(status, StatusText(status), errorBody),
                         !.readFailed = (read = ReadFails)]

\* await res.text().catch(() => ""), then throw the Stripe API error.
ErrorText(o) ==
  /\ ops[o].pc = "text"
  /\ \E read \in ErrorBodies :
       ops' = [ops EXCEPT ![o] = Settled(ops[o], Thrown(ops[o].status, read))]
  /\ UNCHANGED <<now, requestTimestamps>>
  /\ UNCHANGED others

\* await res.json(): the decoded body, or a decoding failure.
Json(o) ==
  /\ ops[o].pc = "json"
  /\ \E good \in BOOLEAN :
       ops' = [ops EXCEPT ![o] = Settled(ops[o],
                          IF good
                          THEN [NoOutcome EXCEPT !.kind = "result",
                                                 !.status = ops[o].status,
                                                 !.value = "json"]
                          ELSE [NoOutcome EXCEPT !.kind = "failure",
                                                 !.status = ops[o].status,
                                                 !.value = "parse",
                                                 !.message = <<"Unexpected token">>])]
  /\ UNCHANGED <<now, requestTimestamps>>
  /\ UNCHANGED others

Next ==
  \/ Tick
  \/ \E o \in Ops : Invoke(o)
  \/ \E o \in Ops : ThrottleWake(o)
  \/ \E o \in Ops : Fetch(o)
  \/ \E o \in Ops : Respond(o)
  \/ \E o \in Ops : TransportFail(o)
  \/ \E o \in Ops : RetryWake(o)
  \/ \E o \in Ops : ErrorText(o)
  \/ \E o \in Ops : Json(o)

Spec == Init /\ [][Next]_vars

\* What the event loop owes operation o: a timer that is due runs, a promise
\* continuation that is ready runs, and fetch, res.text() and res.json() settle.
Progress(o) ==
  \/ ThrottleWake(o)
  \/ Fetch(o)
  \/ Respond(o)
  \/ TransportFail(o)
  \/ RetryWake(o)
  \/ ErrorText(o)
  \/ Json(o)

\* Time passes and every operation in flight is served; nothing obliges a
\* caller to invoke an operation.
Fairness == WF_vars(Tick) /\ \A o \in Ops : WF_vars(Progress(o))

\* The client one call short of its limit: 24 calls were made and answered in
\* the current millisecond, half of them by each caller.
LiveInit ==
  /\ now = 0
  /\ requestTimestamps = [i \in 1..(maxRequests - 1) |-> 0]
  /\ ops = [o \in Ops |-> Settled(IdleOp, [NoOutcome EXCEPT !.kind = "result",
                                           !.status = 200, !.value = "json"])]
  /\ Started

\* A burst: the callers invoke their operations up to InvokeUntil only, after
\* which the calls in flight drain.
InvokeBurst(o) == now <= InvokeUntil /\ Invoke(o)

LiveNext ==
  \/ Tick
  \/ \E o \in Ops : InvokeBurst(o)
  \/ \E o \in Ops : Progress(o)

LiveSpec == LiveInit /\ [][LiveNext]_vars /\ Fairness

\* ------------------------------------------------ the registration layer

\* No client yet: the first tool call constructs it, if the key is there.
ToolInit ==
  /\ now = 0
  /\ requestTimestamps = << >>
  /\ ops = [o \in Ops |-> IdleOp]
  /\ env \in EnvValues
  /\ client = Null
  /\ tool = [o \in Ops |-> IdleTool]
  /\ peerTimestamps = << >>
  /\ peer = IdlePeer
  /\ constructions = 0

\* Mutant: getClient() constructs a client at every call.
NeedsClientAlways(c) == TRUE

\* getClient(): if (!_client)
NeedsClient(c) == c = Null

\* A tool handler is called: getClient() constructs the client on first use,
\* then the resource operation runs up to its first await. A constructor that
\* throws leaves _client null and the handler returns errorResult.
ToolCall(o) ==
  /\ tool[o].pc \in {"idle", "resolved"}
  /\ ops[o].pc = "idle"
  /\ now <= InvokeUntil
  /\ \E name \in Tools :
       IF NeedsClient(client) /\ ~HasKey(env)
       THEN /\ tool' = [tool EXCEPT ![o] = Catch(Error(<<ConfigMessage>>), "config")]
            /\ UNCHANGED <<client, constructions, requestTimestamps, ops>>
       ELSE /\ client' = Constructed
            /\ constructions' = IF NeedsClient(client) THEN constructions + 1
                                                      ELSE constructions
            /\ tool' = [tool EXCEPT ![o] = [pc |-> "awaiting", name |-> name,
                                           result |-> NoResult]]
            /\ Throttle(o, [IdleOp EXCEPT !.req = ToolRequest(name)])
  /\ UNCHANGED <<now, env, peerTimestamps, peer>>

\* result.data.length of the list handlers throws when the decoded value has
\* no data array.
ShapeError == Error(<<"Cannot read properties of undefined (reading 'length')">>)

\* The client's promise settled: the handler shapes the result, or catches
\* the failure thrown by the await or by the shaping.
ToolSettle(o) ==
  /\ tool[o].pc = "awaiting"
  /\ ops[o].pc = "done"
  /\ LET out == ops[o].outcome
         name == tool[o].name
     IN \E hasData \in BOOLEAN :
          tool' = [tool EXCEPT ![o] =
            IF out.kind = "failure" THEN Catch(Error(out.message), "core")
            ELSE IF name = "stripe_list_customers" /\ (out.value = "empty" \/ ~hasData)
            THEN Catch(ShapeError, "shape")
            ELSE Return(out.status)]
  /\ ops' = [ops EXCEPT ![o] = IdleOp]
  /\ UNCHANGED <<now, requestTimestamps, env, client, peerTimestamps, peer,
                 constructions>>

ToolNext ==
  \/ Tick
  \/ \E o \in Ops :
       \/ ToolCall(o)
       \/ ToolSettle(o)
       \/ ThrottleWake(o)
       \/ Fetch(o)
       \/ Respond(o)
       \/ TransportFail(o)
       \/ RetryWake(o)
       \/ ErrorText(o)
       \/ Json(o)

ToolSpec == ToolInit /\ [][ToolNext]_vars

\* ------------------------------------------------- a second client instance

\* Mutant: the log is one array shared by all instances.
PeerStoreShared(log) == requestTimestamps' = log /\ UNCHANGED peerTimestamps

\* this.requestTimestamps = ... on the second instance.
PeerStore(log) == peerTimestamps' = log /\ UNCHANGED requestTimestamps

\* throttle() on the second instance, up to its first await or its return.
PeerInvoke ==
  /\ peer.pc = "idle"
  /\ now <= InvokeUntil
  /\ LET pruned == Pruned(peerTimestamps, now) IN
     IF AtLimit(pruned) /\ WaitMs(now, pruned[1]) > 0
     THEN /\ PeerStore(pruned)
          /\ peer' = [pc |-> "throttleWait",
                      deadline |-> TimerDue(now, WaitMs(now, pruned[1]))]
     ELSE /\ PeerStore(Append(pruned, now))
          /\ peer' = IdlePeer
  /\ UNCHANGED <<now, ops, env, client, tool, constructions>>

\* The throttle timer of the second instance ran.
PeerWake ==
  /\ peer.pc = "throttleWait"
  /\ now >= peer.deadline
  /\ PeerStore(Append(peerTimestamps, now))
  /\ peer' = IdlePeer
  /\ UNCHANGED <<now, ops, env, client, tool, constructions>>

\* Both clients one call short of their limit.
ClientsInit ==
  /\ now = 0
  /\ requestTimestamps = [i \in 1..(maxRequests - 1) |-> 0]
  /\ ops = [o \in Ops |-> Settled(IdleOp, [NoOutcome EXCEPT !.kind = "result",
                                           !.status = 200, !.value = "json"])]
  /\ env = SecretKey
  /\ client = Constructed
  /\ tool = [o \in Ops |-> IdleTool]
  /\ peerTimestamps = [i \in 1..(maxRequests - 1) |-> 0]
  /\ peer = IdlePeer
  /\ constructions = 1

ClientsNext ==
  \/ Tick
  \/ PeerInvoke
  \/ PeerWake
  \/ \E o \in Ops : InvokeBurst(o)
  \/ \E o \in Ops : Progress(o)

ClientsSpec == ClientsInit /\ [][ClientsNext]_vars

\* ----------------------------------------------------------------- claims

\* Number of recorded admissions that lie within the 1-second window ending at t.
InWindow(log, t) == Cardinality({i \in DOMAIN log : log[i] <= t /\ t - log[i] < windowMs})

\* Operation o enters throttle() in this step: request() is called, by a
\* resource operation or by the retry after a 429.
Enters(o) ==
  /\ ops[o].pc \in {"idle", "done", "retryWait"}
  /\ ops'[o].pc \in {"throttleWait", "admitted"}

Last(log) == log[Len(log)]

\* Calls issued strictly one at a time: request() is entered only when no
\* earlier call is still suspended inside throttle().
NoneSuspended == \A p \in Ops : ops[p].pc # "throttleWait"

SeqInvoke(o) == NoneSuspended /\ Invoke(o)

SeqRetryWake(o) == NoneSuspended /\ RetryWake(o)

SeqNext ==
  \/ Tick
  \/ \E o \in Ops :
       \/ SeqInvoke(o)
       \/ ThrottleWake(o)
       \/ Fetch(o)
       \/ Respond(o)
       \/ TransportFail(o)
       \/ SeqRetryWake(o)
       \/ ErrorText(o)
       \/ Json(o)

SeqSpec == Init /\ [][SeqNext]_vars

\* The builder alone: each caller makes one call, of any resource operation
\* with any arguments, and the request is built when fetch is called.
BuildInvoke(o) ==
  /\ ops[o].pc = "idle"
  /\ \E r \in Calls : Throttle(o, [IdleOp EXCEPT !.req = r])
  /\ UNCHANGED now
  /\ UNCHANGED others

BuildNext == \E o \in Ops : BuildInvoke(o) \/ Fetch(o)

BuildSpec == Init /\ [][BuildNext]_vars

\* The key/value pairs request() put on the wire.
Built(sent) == IF sent.method \in {"GET", "DELETE"} THEN sent.query ELSE sent.body

\* The arguments of a call that were supplied, as wire key and string.
Supplied(args) ==
  {<<args[i][1], String(args[i][2])>> : i \in {j \in DOMAIN args : args[j][2].t # "undefined"}}

\* Entries of log in the half-open window [s, s + windowMs).
FromWindow(log, s) == Cardinality({i \in DOMAIN log : log[i] >= s /\ log[i] < s + windowMs})

\* C1: no 1-second window ever contains more than 25 recorded admissions,
\* whatever the number of concurrent operations and the interleaving of their
\* throttle waits.
C1_RateCeiling ==
  \A i \in DOMAIN requestTimestamps :
    InWindow(requestTimestamps, requestTimestamps[i]) <= maxRequests

\* C2: every fetch is preceded by its own admission: an operation that has
\* received k responses with status 429 has appended exactly k+1 timestamps
\* when its (k+1)-th fetch is issued, and never has more fetches than admissions.
C2_AdmissionPerAttempt ==
  \A o \in Ops :
    /\ ops[o].nFetch <= ops[o].nAdm
    /\ ops[o].pc = "fetching" =>
         /\ ops[o].nFetch = ops[o].n429 + 1
         /\ ops[o].nAdm = ops[o].n429 + 1

C2_Witness ==
  \E o \in Ops : ops[o].pc = "fetching" /\ ops[o].n429 = 1 /\ ops[o].nAdm = 2

\* C3: a call that finds fewer than 25 admissions recorded within the last
\* second is not suspended: it is admitted in the same step and its timestamp,
\* the current time, is recorded.
C3_NoDelayUnderLimit ==
  [][\A o \in Ops :
       (Enters(o) /\ InWindow(requestTimestamps, now) < maxRequests) =>
         /\ ops'[o].pc = "admitted"
         /\ ~ops'[o].suspended
         /\ Len(requestTimestamps') > 0
         /\ Last(requestTimestamps') = now]_vars

C3_Witness ==
  /\ Len(requestTimestamps) = maxRequests
  /\ InWindow(requestTimestamps, now) = maxRequests
  /\ \E o \in Ops : ops[o].pc = "admitted" /\ ~ops[o].suspended
  /\ \A o \in Ops : ops[o].pc # "throttleWait"

\* The oldest admission recorded within the last second.
OldestInWindow ==
  CHOOSE ts \in {requestTimestamps[i] : i \in {j \in DOMAIN requestTimestamps :
                                                 now - requestTimestamps[j] < windowMs}} :
    \A i \in DOMAIN requestTimestamps :
      now - requestTimestamps[i] < windowMs => ts <= requestTimestamps[i]

\* C4: a call that finds 25 admissions recorded within the last second is
\* suspended, and the time recorded for it is at least the oldest of them
\* + 1000 ms + 50 ms.
C4_DelayedPastWindow ==
  [][\A o \in Ops :
       /\ (Enters(o) /\ InWindow(requestTimestamps, now) >= maxRequests) =>
            /\ ops'[o].pc = "throttleWait"
            /\ ops'[o].oldest = OldestInWindow
            /\ requestTimestamps' = Pruned(requestTimestamps, now)
       /\ (ops[o].pc = "throttleWait" /\ ops'[o].pc # "throttleWait") =>
            /\ Len(requestTimestamps') = Len(requestTimestamps) + 1
            /\ Last(requestTimestamps') >= ops[o].oldest + windowMs + marginMs]_vars

C4_Witness ==
  \E o \in Ops :
    /\ ops[o].pc = "admitted"
    /\ ops[o].suspended
    /\ Last(requestTimestamps) = now

\* C5: when at least the 1-second window has passed since the last recorded
\* admission, the next call finds the log empty after pruning and is admitted
\* without suspension: the log then holds that call's timestamp only.
C5_IdleWindowResets ==
  [][\A o \in Ops :
       (/\ Enters(o)
        /\ Len(requestTimestamps) > 0
        /\ now - Last(requestTimestamps) >= windowMs) =>
         /\ requestTimestamps' = <<now>>
         /\ ops'[o].pc = "admitted"
         /\ ~ops'[o].suspended]_vars

C5_Witness ==
  /\ requestTimestamps = <<now>>
  /\ \E o, p \in Ops :
       /\ ops[o].pc = "admitted" /\ ~ops[o].suspended
       /\ ops[p].pc = "done"

\* The delay hints that state a number of seconds, and that number.
IsSeconds(h) == h \in {"0", "1"}
Seconds(h) == IF h = "1" THEN 1 ELSE 0

HintAbsent(h) == h = NoHeader \/ h = ""

\* C7: the wait set up after a 429 is the default of 2 seconds exactly when
\* the response carries no delay hint.
C7_DefaultWait ==
  \A o \in Ops :
    ops[o].pc = "retryWait" =>
      (HintAbsent(ops[o].hint) <=> ops[o].deadline - ops[o].got429At = defaultWaitSec * 1000)

C7_Witness ==
  \E o \in Ops :
    /\ ops[o].pc = "retryWait"
    /\ ops[o].hint = NoHeader
    /\ ops[o].deadline = ops[o].got429At + 2000

\* C8: a 429 response never settles the operation: after the k-th 429 the
\* operation is waiting to retry or retrying, and a failure never carries
\* status 429.
C8_NeverFailsOn429 ==
  \A o \in Ops :
    /\ ops[o].status = 429 =>
         ops[o].pc \in {"retryWait", "throttleWait", "admitted", "fetching"}
    /\ ops[o].n429 > 0 => ops[o].pc # "done"
    /\ ops[o].outcome.kind = "failure" => ops[o].outcome.status # 429

C8_Witness ==
  \E o \in Ops : ops[o].pc = "fetching" /\ ops[o].n429 >= 1 /\ ops[o].status = 429

\* C9: under fair scheduling of timers and responses, and a remote service
\* that stops answering 429, every operation in flight settles, also while
\* another operation runs on the same client; it settles on its first non-429
\* response, with that response's status, and makes no attempt after it.
C9_EventuallySettles ==
  /\ \A o \in Ops : Pending(o) ~> (ops[o].pc = "done")
  /\ [][\A o \in Ops :
         /\ (Pending(o) /\ ops'[o].pc = "done") => ops'[o].outcome.status # 429
         /\ (ops[o].pc \in {"text", "json"} /\ ops'[o] # ops[o]) =>
              /\ ops'[o].pc = "done"
              /\ ops'[o].outcome.status = ops[o].status]_vars

C9_Witness ==
  /\ \E o \in Ops : ops[o].pc = "done" /\ ops[o].outcome.kind = "result"
  /\ \E o \in Ops : ops[o].pc = "fetching" /\ ops[o].n429 >= 1

\* C10: a 204 response settles the operation with the empty result; its body
\* is never handed to the JSON decoder, so it yields no decoding failure.
C10_NoContentIsEmpty ==
  \A o \in Ops :
    /\ ops[o].outcome.status = 204 =>
         ops[o].outcome.kind = "result" /\ ops[o].outcome.value = "empty"
    /\ ops[o].pc = "json" => ops[o].status # 204

C10_Witness ==
  \E o \in Ops :
    /\ ops[o].pc = "done"
    /\ ops[o].outcome.kind = "result"
    /\ ops[o].outcome.status = 204
    /\ ops[o].outcome.value = "empty"

\* C11: a response whose status is neither 2xx nor 429 makes the operation
\* fail with a message that carries the status, the status text and the body
\* text; when reading the body fails the failure is raised all the same, with
\* the empty string for the body.
C11_ErrorCarriesResponse ==
  [][\A o \in Ops :
       /\ (ops[o].pc = "fetching" /\ ops'[o].pc # "fetching" /\ ops'[o].pc # "done"
           /\ ~IsOk(ops'[o].status) /\ ops'[o].status # 429) => ops'[o].pc = "text"
       /\ (ops[o].pc = "text" /\ ops'[o] # ops[o]) =>
            /\ ops'[o].pc = "done"
            /\ ops'[o].outcome.kind = "failure"
            /\ ops'[o].outcome.status = ops[o].status
            /\ Len(ops'[o].outcome.message) = 6
            /\ ops'[o].outcome.message[2] = ops[o].status
            /\ ops'[o].outcome.message[4] = StatusText(ops[o].status)
            /\ ops'[o].outcome.message[6] = ops'[o].outcome.body
            /\ ops'[o].outcome.body # ReadFails
            /\ ops'[o].outcome.readFailed => ops'[o].outcome.body = ""]_vars

C11_Witness ==
  \E o \in Ops :
    /\ ops[o].pc = "done"
    /\ ops[o].outcome.kind = "failure"
    /\ ops[o].outcome.status = 404
    /\ ops[o].outcome.readFailed
    /\ ops[o].outcome.message = <<"Stripe API error (", 404, " ", "Not Found", "): ", "">>

\* C12: only a 429 starts a retry: a non-2xx non-429 response, a rejected
\* fetch and a decoding failure settle the operation with a failure, in a step
\* that records no admission, and leave it with no attempt to come.
C12_OnlyRetryOn429 ==
  [][\A o \in Ops :
       /\ (ops'[o].pc = "retryWait" /\ ops[o].pc # "retryWait") =>
            ops[o].pc = "fetching" /\ ops'[o].status = 429
       /\ (ops[o].pc \in {"text", "json"} /\ ops'[o] # ops[o]) =>
            /\ ops'[o].pc = "done"
            /\ requestTimestamps' = requestTimestamps
       /\ (Pending(o) /\ ops'[o].outcome.kind = "failure") =>
            /\ ops'[o].pc = "done"
            /\ ops'[o].nFetch = 0 /\ ops'[o].nAdm = 0
            /\ requestTimestamps' = requestTimestamps
       /\ (ops'[o].nFetch > ops[o].nFetch) => ops[o].pc = "admitted"
       /\ (ops[o].pc = "done" /\ ops'[o] # ops[o]) => ops'[o].n429 = 0]_vars

C12_Witness ==
  \E o, p \in Ops :
    /\ ops[o].pc = "done" /\ ops[o].outcome.value = "transport"
    /\ ops[p].pc = "done" /\ ops[p].outcome.value = "parse"

\* C13: the builder drops exactly the parameters whose value is undefined: the
\* keys of the built query string or form body are the keys with a defined
\* value, each once and with its value; createCustomer with only the email
\* yields the body email=a%40b.com.
C13_DropsExactlyAbsent ==
  \A o \in Ops : ops[o].pc = "fetching" =>
    LET params == ops[o].req.params
        built == Built(ops[o].sent)
    IN /\ {built[i][1] : i \in DOMAIN built}
            = {params[i][1] : i \in {j \in DOMAIN params : params[j][2] # Undefined}}
       /\ \A i, j \in DOMAIN built : i # j => built[i][1] # built[j][1]
       /\ \A i \in DOMAIN built : \E j \in DOMAIN params : params[j] = built[i]
       /\ ops[o].sent.method \in {"GET", "DELETE"} => ops[o].sent.body = << >>
       /\ ops[o].sent.method \notin {"GET", "DELETE"} => ops[o].sent.query = << >>
       /\ ops[o].req = createCustomer(Str("a@b.com"), Undef, Undef, Undef)
            => ops[o].sent.text = "email=a%40b.com"

C13_Witness ==
  \E o, p \in Ops :
    /\ ops[o].pc = "fetching"
    /\ ops[o].req = createCustomer(Str("a@b.com"), Undef, Undef, Undef)
    /\ ops[o].sent.body = << <<"email", "a@b.com">> >>
    /\ ops[p].pc = "fetching"
    /\ ops[p].req = createCustomer(Str(""), Str(""), Undef, Undef)
    /\ ops[p].sent.text = "email=&name="

\* C14: every argument the caller supplies, the number 0, the boolean false
\* and the empty string included, is in the built request under its wire key
\* as its string representation, and nothing else is.
C14_SuppliedArgsSent ==
  \A o \in Ops : ops[o].pc = "fetching" =>
    {Built(ops[o].sent)[i] : i \in DOMAIN Built(ops[o].sent)} = Supplied(ops[o].req.args)

\* C15: the form body of createPrice is product, unit_amount, currency in that
\* order, as strings, followed by recurring[interval] exactly when an interval
\* is supplied, and nothing else.
C15_CreatePriceBody ==
  \A o \in Ops : (ops[o].pc = "fetching" /\ ops[o].req.op = "createPrice") =>
    LET a == ops[o].req.args
        base == << <<"product", String(a[1][2])>>,
                   <<"unit_amount", String(a[2][2])>>,
                   <<"currency", String(a[3][2])>> >>
    IN /\ ops[o].sent.query = << >>
       /\ ops[o].sent.body = IF a[4][2].t # "undefined"
                             THEN Append(base, <<"recurring[interval]", String(a[4][2])>>)
                             ELSE base
       /\ ops[o].req = createPrice(Str("prod_1"), Num(5000), Str("usd"), Str("month"))
            => ops[o].sent.text =
                 "product=prod_1&unit_amount=5000&currency=usd&recurring%5Binterval%5D=month"

\* C16: with the credential absent from the environment, the call that would
\* construct the client fails at once with the configuration error: no client
\* exists afterwards, no timestamp is recorded, no request is started and no
\* timer is left to retry.
C16_NoClientWithoutKey ==
  [][/\ client = Null =>
          /\ requestTimestamps = << >>
          /\ \A o \in Ops : ops[o].pc = "idle"
     /\ \A o \in Ops :
          (env = Unset /\ tool'[o] # tool[o]) =>
            /\ tool'[o].pc = "resolved"
            /\ tool'[o].result.isError
            /\ tool'[o].result.text = <<"Error: ", ConfigMessage>>
            /\ client' = Null
            /\ requestTimestamps' = << >>
            /\ ops' = ops
            /\ Deadlines = {}]_vars

C16_Witness ==
  \E o \in Ops :
    /\ env = Unset
    /\ client = Null
    /\ tool[o].pc = "resolved"
    /\ tool[o].result.failed = "config"
    /\ requestTimestamps = << >>

\* C17: a tool invocation never rejects: it resolves with a result, and a
\* failure raised by the constructor, by the client's request or while the
\* result is shaped is an error result, flagged isError, whose text is
\* "Error: " followed by the failure's message.
C17_ToolAlwaysResolves ==
  [][\A o \in Ops :
       /\ tool'[o].pc # "rejected"
       /\ (tool[o].pc = "awaiting" /\ tool'[o] # tool[o]) =>
            /\ tool'[o].pc = "resolved"
            /\ ops[o].outcome.kind = "failure" =>
                 /\ tool'[o].result.isError
                 /\ tool'[o].result.text = <<"Error: ">> \o ops[o].outcome.message
            /\ tool'[o].result.failed = "shape" =>
                 /\ tool'[o].result.isError
                 /\ tool'[o].result.text = <<"Error: ">> \o ShapeError.message
            /\ (ops[o].outcome.kind = "result" /\ tool'[o].result.failed = "none") =>
                 ~tool'[o].result.isError
       /\ (tool[o].pc \in {"idle", "resolved"} /\ tool'[o] # tool[o]
           /\ tool'[o].pc # "awaiting") =>
            /\ tool'[o].pc = "resolved"
            /\ tool'[o].result.isError
            /\ tool'[o].result.text = <<"Error: ", ConfigMessage>>]_vars

C17_Witness ==
  \E o, p \in Ops :
    /\ tool[o].pc = "resolved"
    /\ tool[o].result.failed = "core"
    /\ tool[o].result.text = <<"Error: ", "fetch failed">>
    /\ tool[p].pc = "resolved"
    /\ tool[p].result.failed = "shape"
    /\ tool[p].result.isError

\* C18: each client instance has its own log: a step of a call on one client
\* leaves the other client's log unchanged, and a client below its limit
\* admits a call at once while the other client is at its limit.
C18_LogPerClient ==
  [][/\ requestTimestamps' # requestTimestamps => ops' # ops
     /\ ops' # ops => peerTimestamps' = peerTimestamps
     /\ peerTimestamps' # peerTimestamps => requestTimestamps' = requestTimestamps
     /\ \A o \in Ops :
          (Enters(o) /\ InWindow(requestTimestamps, now) < maxRequests) =>
            ops'[o].pc = "admitted"
     /\ (peer.pc = "idle" /\ peerTimestamps' # peerTimestamps
         /\ InWindow(peerTimestamps, now) < maxRequests) =>
            /\ peer'.pc = "idle"
            /\ Last(peerTimestamps') = now]_vars

C18_Witness ==
  /\ peer.pc = "throttleWait"
  /\ InWindow(peerTimestamps, now) = maxRequests
  /\ \E o \in Ops :
       /\ ops[o].pc = "admitted"
       /\ ~ops[o].suspended
       /\ Last(requestTimestamps) = now
       /\ InWindow(requestTimestamps, now) = maxRequests

\* C19: when no call enters request() while another is suspended in
\* throttle(), every half-open 1-second window holds at most 25 recorded
\* admissions.
C19_SequentialCeiling ==
  \A i \in DOMAIN requestTimestamps :
    FromWindow(requestTimestamps, requestTimestamps[i]) <= maxRequests

C19_Witness ==
  \E o \in Ops :
    /\ ops[o].pc = "admitted"
    /\ ops[o].suspended
    /\ Len(requestTimestamps) = maxRequests + 1
    /\ FromWindow(requestTimestamps, requestTimestamps[1]) = maxRequests

\* C20: at every admission check the log is first pruned to the timestamps
\* less than 1 second old, and the caller goes on without suspension only when
\* fewer than 25 of them remain.
C20_PrunedBeforeCheck ==
  [][\A o \in Ops : Enters(o) =>
       LET kept == IF ops'[o].pc = "admitted"
                   THEN SubSeq(requestTimestamps', 1, Len(requestTimestamps') - 1)
                   ELSE requestTimestamps'
       IN /\ \A i \in DOMAIN kept : now - kept[i] < windowMs
          /\ Len(kept) = Cardinality({i \in DOMAIN requestTimestamps :
                                        now - requestTimestamps[i] < windowMs})
          /\ ops'[o].pc = "admitted" <=> Len(kept) < maxRequests]_vars

C20_Witness ==
  \E o, p \in Ops :
    /\ ops[o].pc = "throttleWait"
    /\ ops[p].pc = "admitted" /\ ~ops[p].suspended
    /\ now >= windowMs
    /\ Len(requestTimestamps) = maxRequests
    /\ \A i \in DOMAIN requestTimestamps : now - requestTimestamps[i] < windowMs

\* C21: an admission appends one timestamp, the time at which the wait, if
\* any, has ended; after its wait the caller is admitted without a second
\* look at the log; and the log changes only in a step of throttle().
C21_OneTimestampPerAdmission ==
  [][/\ \A o \in Ops :
          /\ (Enters(o) /\ ops'[o].pc = "admitted") =>
               /\ Len(requestTimestamps') = InWindow(requestTimestamps, now) + 1
               /\ Last(requestTimestamps') = now
               /\ ops'[o].nAdm = ops[o].nAdm + 1
          /\ (Enters(o) /\ ops'[o].pc = "throttleWait") =>
               /\ Len(requestTimestamps') = InWindow(requestTimestamps, now)
               /\ ops'[o].nAdm = ops[o].nAdm
          /\ (ops[o].pc = "throttleWait" /\ ops'[o] # ops[o]) =>
               /\ ops'[o].pc = "admitted"
               /\ ops'[o].nAdm = ops[o].nAdm + 1
               /\ requestTimestamps' = Append(requestTimestamps, now)
               /\ now >= ops[o].deadline
               /\ now > ops[o].oldest + windowMs
     /\ requestTimestamps' # requestTimestamps =>
          \E o \in Ops : Enters(o) \/ (ops[o].pc = "throttleWait" /\ ops'[o].pc = "admitted")]_vars

C21_Witness ==
  \E o \in Ops :
    /\ ops[o].pc = "admitted"
    /\ ops[o].suspended
    /\ Last(requestTimestamps) = now
    /\ now >= windowMs + marginMs
    /\ requestTimestamps[1] = 0

\* C22: whenever 25 or more entries are left after pruning, the caller is
\* suspended, for a wait of more than 50 ms and at most 1050 ms; a call is
\* never let through at the limit by a wait that is zero or negative.
C22_WaitInRange ==
  [][\A o \in Ops : Enters(o) =>
       /\ InWindow(requestTimestamps, now) >= maxRequests => ops'[o].pc = "throttleWait"
       /\ ops'[o].pc = "throttleWait" =>
            /\ Len(requestTimestamps') >= maxRequests
            /\ ops'[o].deadline - now > marginMs
            /\ ops'[o].deadline - now <= windowMs + marginMs
       /\ ops'[o].pc = "admitted" => Len(requestTimestamps') <= maxRequests]_vars

C22_Witness ==
  \E o \in Ops :
    /\ ops[o].pc = "throttleWait"
    /\ now > ops[o].oldest
    /\ ops[o].deadline - now = windowMs + marginMs - (now - ops[o].oldest)
    /\ Len(requestTimestamps) > maxRequests

\* Number of entries of log equal to t.
Count(log, t) == Cardinality({i \in DOMAIN log : log[i] = t})

\* C23: a call that ends in failure leaves the log as it is, and no step
\* takes away a timestamp that is less than a window old: the admissions of
\* a failed call stay in the log until they expire and count for later calls.
C23_NoRefundOnFailure ==
  [][/\ \A o \in Ops :
          (Pending(o) /\ ops'[o].pc = "done" /\ ops'[o].outcome.kind = "failure") =>
            requestTimestamps' = requestTimestamps
     /\ \A t \in {requestTimestamps[i] : i \in DOMAIN requestTimestamps} :
          now - t < windowMs =>
            Count(requestTimestamps', t) >= Count(requestTimestamps, t)]_vars

C23_Witness ==
  \E o, p \in Ops :
    /\ ops[o].pc = "done"
    /\ ops[o].outcome.kind = "failure"
    /\ ops[p].pc = "throttleWait"
    /\ ops[p].oldest = now
    /\ Count(requestTimestamps, now) >= maxRequests

\* C24: one tool registration constructs at most one client: once getClient()
\* has succeeded, every later call of every tool keeps that client, records
\* its admission in that client's log and constructs nothing; a construction
\* is attempted only while there is no client.
C24_OneClientPerRegistration ==
  [][/\ constructions' <= 1
     /\ client # Null => client' = client /\ constructions' = constructions
     /\ (client = Null /\ client' # Null) =>
          /\ HasKey(env)
          /\ constructions' = constructions + 1
     /\ \A o \in Ops :
          (client # Null /\ tool[o].pc \in {"idle", "resolved"} /\ tool'[o] # tool[o]) =>
            /\ tool'[o].pc = "awaiting"
            /\ Enters(o)
            /\ peerTimestamps' = peerTimestamps
            /\ env' = env]_vars

C24_Witness ==
  \E o, p \in Ops :
    /\ constructions = 1
    /\ client = Constructed
    /\ tool[o].pc = "awaiting" /\ tool[o].name = "stripe_create_customer"
    /\ tool[p].pc = "awaiting" /\ tool[p].name = "stripe_list_customers"
    /\ Len(requestTimestamps) >= 3

====
